---- MODULE Spec2Model ----
(***************************************************************************)
(* Model of obsidian-s3-attachments' convertAttachments pipeline:          *)
(* reference scanner, target classifier, upload/dedup engine, replacement  *)
(* renderer, patch loop and batch orchestrator.                            *)
(*                                                                         *)
(* Text is a sequence of one-character strings.  Offsets are 0-based, as   *)
(* in the TypeScript source: the character at offset i of s is s[i + 1].   *)
(***************************************************************************)
EXTENDS Integers, Sequences, FiniteSets, TLC

\* ------------------------------------------------------------------------
\* JavaScript string primitives used by the source
\* ------------------------------------------------------------------------

\* An optional value (label?: string, suffix?: string): <<>> is undefined.
None ==
    <<>>

Some(x) ==
    <<x>>

\* `v ?? ""`
OrEmpty(v) ==
    IF v = None THEN <<>> ELSE v[1]

Min(a, b) ==
    IF a < b THEN a ELSE b

Max(a, b) ==
    IF a > b THEN a ELSE b

At(s, i) ==
    s[i + 1]

\* s.slice(a, b): both ends clamped to the length, empty when a >= b
Slice(s, a, b) ==
    SubSeq(s, Min(Max(a, 0), Len(s)) + 1, Min(Max(b, 0), Len(s)))

\* s.slice(a)
SliceFrom(s, a) ==
    Slice(s, a, Len(s))

\* s.indexOf(c, i): first offset >= i holding c, or -1
IndexOfFrom(s, c, i) ==
    LET hits == {k \in i..(Len(s) - 1) : At(s, k) = c}
    IN  IF hits = {} THEN -1 ELSE CHOOSE k \in hits : \A j \in hits : k <= j

IndexOf(s, c) ==
    IndexOfFrom(s, c, 0)

\* s.lastIndexOf(c)
LastIndexOf(s, c) ==
    LET hits == {k \in 0..(Len(s) - 1) : At(s, k) = c}
    IN  IF hits = {} THEN -1 ELSE CHOOSE k \in hits : \A j \in hits : k >= j

StartsWith(s, p) ==
    Len(s) >= Len(p) /\ SubSeq(s, 1, Len(p)) = p

IsSpace(c) ==
    c \in {" ", "\t", "\n"}

\* s.trim()
Trim(s) ==
    LET keep == {k \in 0..(Len(s) - 1) : ~IsSpace(At(s, k))}
    IN  IF keep = {} THEN <<>>
        ELSE Slice(s, CHOOSE k \in keep : \A j \in keep : k <= j,
                      (CHOOSE k \in keep : \A j \in keep : k >= j) + 1)

\* s.split(c)[0]
BeforeFirst(s, c) ==
    IF IndexOf(s, c) = -1 THEN s ELSE Slice(s, 0, IndexOf(s, c))

\* s.split(c).pop()
AfterLast(s, c) ==
    SliceFrom(s, LastIndexOf(s, c) + 1)

LowerChar(c) ==
    CASE c = "P" -> "p"
      [] c = "N" -> "n"
      [] c = "G" -> "g"
      [] c = "D" -> "d"
      [] c = "F" -> "f"
      [] OTHER -> c

\* s.toLowerCase()
ToLowerCase(s) ==
    [k \in 1..Len(s) |-> LowerChar(s[k])]

\* ------------------------------------------------------------------------
\* Target classifier
\* ------------------------------------------------------------------------

HTTP ==
    <<"h", "t", "t", "p", ":", "/", "/">>

HTTPS ==
    <<"h", "t", "t", "p", "s", ":", "/", "/">>

DATA ==
    <<"d", "a", "t", "a", ":">>

MAILTO ==
    <<"m", "a", "i", "l", "t", "o", ":">>

FILE ==
    <<"f", "i", "l", "e", ":">>

\* The scheme test without https://
isProbablyRemoteLink_NoHttps(target) ==
    LET t == Trim(target)
    IN  \/ StartsWith(t, HTTP)
        \/ StartsWith(t, DATA)
        \/ StartsWith(t, MAILTO)
        \/ StartsWith(t, FILE)

isProbablyRemoteLink(target) ==
    LET t == Trim(target)
    IN  \/ StartsWith(t, HTTP)
        \/ StartsWith(t, HTTPS)
        \/ StartsWith(t, DATA)
        \/ StartsWith(t, MAILTO)
        \/ StartsWith(t, FILE)

\* null is None, an extension is Some(ext)
extractExtFromTarget(target) ==
    LET t    == Trim(BeforeFirst(BeforeFirst(target, "#"), "?"))
        last == AfterLast(t, "/")
        dot  == LastIndexOf(last, ".")
        ext  == ToLowerCase(SliceFrom(last, dot + 1))
    IN  IF t = <<>> THEN None
        ELSE IF dot = -1 THEN None
        ELSE IF ext = <<>> THEN None
        ELSE Some(ext)

EXT_md ==
    <<"m", "d">>

EXT_png ==
    <<"p", "n", "g">>

EXT_pdf ==
    <<"p", "d", "f">>

EXT_html ==
    <<"h", "t", "m", "l">>

\* settings.mimeType: the configured extension -> MIME -> rendering method
\* table (README "Feature list"; the table is user-configurable).
MimeTable ==
    {[ext |-> <<"i", "c", "o">>, method |-> "img"],
     [ext |-> EXT_png, method |-> "img"],
     [ext |-> <<"j", "p", "g">>, method |-> "img"],
     [ext |-> <<"j", "p", "e", "g">>, method |-> "img"],
     [ext |-> <<"g", "i", "f">>, method |-> "img"],
     [ext |-> <<"s", "v", "g">>, method |-> "img"],
     [ext |-> <<"m", "p", "3">>, method |-> "img"],
     [ext |-> <<"w", "a", "v">>, method |-> "img"],
     [ext |-> <<"m", "p", "4">>, method |-> "img"],
     [ext |-> <<"w", "e", "b", "m">>, method |-> "img"],
     [ext |-> EXT_html, method |-> "iframe"],
     [ext |-> EXT_pdf, method |-> "link"],
     [ext |-> <<"z", "i", "p">>, method |-> "link"],
     [ext |-> <<"d", "o", "c">>, method |-> "link"]}

includeEXT(ext) ==
    \E e \in MimeTable : e.ext = ext

isAttachmentCandidate(target) ==
    LET ext == extractExtFromTarget(target)
    IN  IF ext = None THEN FALSE
        ELSE IF ext[1] = EXT_md THEN FALSE
        ELSE includeEXT(ext[1])

\* ------------------------------------------------------------------------
\* Reference scanner
\* ------------------------------------------------------------------------

\* parseMarkdownDest's title pattern /^(.*?)(?:\s+(".*"|'.*'))\s*$/ on a
\* trimmed d: the offsets p at which \s+ can start, so that the whitespace
\* run from p ends at a quote that is closed by the last character of d.
TitleStarts(d) ==
    {p \in 1..(Len(d) - 3) :
        /\ IsSpace(At(d, p))
        /\ \A j \in 0..(p - 1) : At(d, j) # "\n"
        /\ \E q \in (p + 1)..(Len(d) - 2) :
              /\ \A j \in p..(q - 1) : IsSpace(At(d, j))
              /\ At(d, q) \in {"\"", "'"}
              /\ At(d, Len(d) - 1) = At(d, q)
              /\ \A j \in (q + 1)..(Len(d) - 2) : At(d, j) # "\n"}

StripTitle(d) ==
    IF TitleStarts(d) = {} THEN d
    ELSE Slice(d, 0, CHOOSE p \in TitleStarts(d) : \A j \in TitleStarts(d) : p <= j)

\* offset of the first '#' or '?' of d, or -1
FirstFragOrQuery(d) ==
    LET hits == {k \in 0..(Len(d) - 1) : At(d, k) \in {"#", "?"}}
    IN  IF hits = {} THEN -1 ELSE CHOOSE k \in hits : \A j \in hits : k <= j

parseMarkdownDest(destRaw) ==
    LET d0 == Trim(destRaw)
        d  == IF StartsWith(d0, <<"<">>)
              THEN IF IndexOf(d0, ">") # -1 THEN Slice(d0, 1, IndexOf(d0, ">")) ELSE d0
              ELSE StripTitle(d0)
        cut == FirstFragOrQuery(d)
    IN  \* /^([^#?]+)([?#].+)?$/ ('.' and '$' stop at a line break)
        IF d = <<>> \/ cut = 0 THEN [dest |-> d, suffix |-> None]
        ELSE IF cut = -1 THEN [dest |-> d, suffix |-> None]
        ELSE IF cut = Len(d) - 1 \/ IndexOfFrom(d, "\n", cut) # -1
             THEN [dest |-> d, suffix |-> None]
        ELSE [dest |-> Slice(d, 0, cut), suffix |-> Some(SliceFrom(d, cut))]

parseObsidianLinkTarget(inner) ==
    LET t       == Trim(inner)
        pipeIdx == IndexOf(t, "|")
        lab     == IF pipeIdx = -1 THEN <<>> ELSE Trim(SliceFrom(t, pipeIdx + 1))
        lp      == IF pipeIdx = -1 THEN t ELSE Trim(Slice(t, 0, pipeIdx))
    IN  [linkpath |-> Trim(BeforeFirst(BeforeFirst(lp, "#"), "^")),
         label    |-> IF lab = <<>> THEN None ELSE Some(lab)]

\* /\[\[([^\]]+?)\]\]/ anchored at offset k: the offset after the match, or -1
WikiEnd(s, k) ==
    LET c == IndexOfFrom(s, "]", k + 2)
    IN  IF /\ k + 1 < Len(s)
           /\ At(s, k) = "["
           /\ At(s, k + 1) = "["
           /\ c > k + 2
           /\ c + 1 < Len(s)
           /\ At(s, c + 1) = "]"
        THEN c + 2 ELSE -1

\* /\[([^\]]*)\]\(([^)]+)\)/ anchored at offset k: the offset after the match, or -1
MdEnd(s, k) ==
    LET c == IndexOfFrom(s, "]", k + 1)
        p == IndexOfFrom(s, ")", c + 2)
    IN  IF /\ k < Len(s)
           /\ At(s, k) = "["
           /\ c # -1
           /\ c + 1 < Len(s)
           /\ At(s, c + 1) = "("
           /\ p > c + 2
        THEN p + 1 ELSE -1

NotAfterBang(s, i) ==
    i = 0 \/ At(s, i - 1) # "!"

\* The four regular expressions, anchored at offset i
MatchEnd(kind, s, i) ==
    CASE kind = "obsidian-embed" ->
            IF At(s, i) = "!" THEN WikiEnd(s, i + 1) ELSE -1
      [] kind = "obsidian-link" ->
            IF NotAfterBang(s, i) THEN WikiEnd(s, i) ELSE -1
      [] kind = "md-embed" ->
            IF At(s, i) = "!" THEN MdEnd(s, i + 1) ELSE -1
      [] kind = "md-link" ->
            IF NotAfterBang(s, i) THEN MdEnd(s, i) ELSE -1

\* The AttachmentRef pushed for a match of `kind` on [i, e)
MakeRef(kind, s, i, e) ==
    LET raw  == Slice(s, i, e)
        open == IF kind \in {"obsidian-embed", "md-embed"} THEN i + 1 ELSE i
    IN  IF kind \in {"obsidian-embed", "obsidian-link"}
        THEN LET parsed == parseObsidianLinkTarget(Slice(s, open + 2, e - 2))
             IN  [kind |-> kind, start |-> i, end |-> e, raw |-> raw,
                  target |-> parsed.linkpath, label |-> parsed.label,
                  suffix |-> None]
        ELSE LET c      == IndexOfFrom(s, "]", open + 1)
                 parsed == parseMarkdownDest(Slice(s, c + 2, e - 1))
             IN  [kind |-> kind, start |-> i, end |-> e, raw |-> raw,
                  target |-> parsed.dest,
                  label |-> Some(Slice(s, open + 1, c)),
                  suffix |-> parsed.suffix]

\* while ((m = re.exec(content)) !== null): the leftmost match at or after
\* lastIndex, then on from the end of that match
RECURSIVE ScanFrom(_, _, _)
ScanFrom(kind, s, i) ==
    IF i >= Len(s) THEN <<>>
    ELSE IF MatchEnd(kind, s, i) # -1
         THEN <<MakeRef(kind, s, i, MatchEnd(kind, s, i))>>
                 \o ScanFrom(kind, s, MatchEnd(kind, s, i))
         ELSE ScanFrom(kind, s, i + 1)

\* refs.sort((a, b) => a.start - b.start): stable insertion by start
RECURSIVE SortByStartAsc(_)
SortByStartAsc(refs) ==
    IF refs = <<>> THEN <<>>
    ELSE LET rest == SortByStartAsc(Tail(refs))
             n    == Cardinality({k \in 1..Len(rest) : rest[k].start < Head(refs).start})
         IN  SubSeq(rest, 1, n) \o <<Head(refs)>> \o SubSeq(rest, n + 1, Len(rest))

extractAttachmentRefs(content) ==
    SortByStartAsc(ScanFrom("obsidian-embed", content, 0)
                       \o ScanFrom("obsidian-link", content, 0)
                       \o ScanFrom("md-embed", content, 0)
                       \o ScanFrom("md-link", content, 0))

\* ------------------------------------------------------------------------
\* Vault files (TFile) and the link resolver
\* ------------------------------------------------------------------------

\* TFile.name: last path segment; TFile.extension / TFile.basename split it
\* at its last dot
FileName(path) ==
    AfterLast(path, "/")

FileExtension(path) ==
    IF LastIndexOf(FileName(path), ".") = -1 THEN <<>>
    ELSE SliceFrom(FileName(path), LastIndexOf(FileName(path), ".") + 1)

FileBasename(path) ==
    IF LastIndexOf(FileName(path), ".") = -1 THEN FileName(path)
    ELSE Slice(FileName(path), 0, LastIndexOf(FileName(path), "."))

\* TFile.parent.path: "/" for a file in the vault root
ParentPath(path) ==
    IF LastIndexOf(path, "/") = -1 THEN <<"/">>
    ELSE Slice(path, 0, LastIndexOf(path, "/"))

TFile(path, bytes) ==
    [path |-> path, name |-> FileName(path), basename |-> FileBasename(path),
     extension |-> FileExtension(path), bytes |-> bytes]

P_a_png ==
    <<"a", ".", "p", "n", "g">>

P_d_a_png ==
    <<"d", "/", "a", ".", "p", "n", "g">>

P_r_pdf ==
    <<"r", ".", "p", "d", "f">>

P_v_html ==
    <<"v", ".", "h", "t", "m", "l">>

\* The binary attachments of the vault; a.png and d/a.png are two copies of
\* the same picture (same name, same bytes).
Attachments ==
    {TFile(P_a_png, <<7>>), TFile(P_d_a_png, <<7>>), TFile(P_r_pdf, <<9>>)}

\* metadataCache.getFirstLinkpathDest(linkpath, sourcePath): the file at that
\* path, else a file of that name; None when there is none
getFirstLinkpathDest(target, sourcePath) ==
    LET byPath == {f \in Attachments : f.path = target}
        byName == {f \in Attachments : f.name = target}
    IN  IF byPath # {} THEN Some(CHOOSE f \in byPath : TRUE)
        ELSE IF byName # {}
             THEN Some(CHOOSE f \in byName : \A g \in byName : Len(f.path) <= Len(g.path))
        ELSE None

getMethodForFile(file) ==
    IF includeEXT(file.extension)
    THEN (CHOOSE e \in MimeTable : e.ext = file.extension).method
    ELSE "link"

\* ------------------------------------------------------------------------
\* Content addressing and URLs
\* ------------------------------------------------------------------------

HexDigit(n) ==
    <<"0", "1", "2", "3", "4", "5", "6", "7", "8", "9", "a", "b", "c", "d", "e", "f">>[n + 1]

\* helper.buf2hex: two hex digits per byte
RECURSIVE buf2hex(_)
buf2hex(buffer) ==
    IF buffer = <<>> THEN <<>>
    ELSE <<HexDigit(Head(buffer) \div 16), HexDigit(Head(buffer) % 16)>>
             \o buf2hex(Tail(buffer))

\* crypto.subtle.digest("SHA-1", buf): a byte-wise stand-in for SHA-1 that
\* maps different bytes to different digests
digest(buf) ==
    [k \in 1..Len(buf) |-> (buf[k] * 37 + 11) % 256]

sha1Hex(buf) ==
    buf2hex(digest(buf))

UNDEFINED ==
    <<"u", "n", "d", "e", "f", "i", "n", "e", "d">>

\* fileName.split('.'): the pieces between dots
RECURSIVE SplitDot(_)
SplitDot(s) ==
    IF IndexOf(s, ".") = -1 THEN <<s>>
    ELSE <<Slice(s, 0, IndexOf(s, "."))>> \o SplitDot(SliceFrom(s, IndexOf(s, ".") + 1))

\* helper.generateResourceName(fileName, undefined, hash) with a hash
generateResourceName(fileName, hash) ==
    LET parts == SplitDot(fileName)
        type  == IF Len(parts) >= 2 THEN parts[2] ELSE UNDEFINED
    IN  parts[1] \o <<"-">> \o hash \o <<".">> \o type

\* buildS3FileNameForVaultFile, after vault.readBinary returned the bytes
buildS3FileNameForVaultFile(file) ==
    generateResourceName(file.name, sha1Hex(file.bytes))

\* server.url and the folder/query the S3 client puts around an object name
ServerUrl ==
    HTTP \o <<"h">>

FolderPart ==
    <<"/", "f", "/">>

ProxyQuery ==
    <<"?", "c">>

PublicBase ==
    HTTPS \o <<"p">>

\* s3.createObjURL(server.url, fileName)
createObjURL(serverUrl, fileName) ==
    serverUrl \o FolderPart \o fileName \o ProxyQuery

\* s3.createPublicURL(fileName, publicBaseUrl): null (None) without a base
createPublicURL(fileName, publicBaseUrl) ==
    IF publicBaseUrl = <<>> THEN None
    ELSE Some(publicBaseUrl \o FolderPart \o fileName)

\* buildTargetUrl: the URL, and whether the fallback Notice was raised
buildTargetUrl(fileName, linkMode, publicBaseUrl) ==
    LET u == IF linkMode = "public" THEN createPublicURL(fileName, publicBaseUrl) ELSE None
    IN  IF linkMode = "public" /\ u # None
        THEN [url |-> u[1], notice |-> FALSE]
        ELSE [url |-> createObjURL(ServerUrl, fileName), notice |-> linkMode = "public"]

\* ------------------------------------------------------------------------
\* Replacement renderer
\* ------------------------------------------------------------------------

IFRAME_1 ==
    <<"<", "i", "f", "r", "a", "m", "e", " ", "s", "r", "c", "=", "\"">>

IFRAME_2 ==
    <<"\"", " ", "a", "l", "t", "=", "\"">>

IFRAME_3 ==
    <<"\"", " ", "s", "t", "y", "l", "e", "=", "\"", "o", "v", "e", "r", "f",
      "l", "o", "w", ":", "h", "i", "d", "d", "e", "n", ";", "h", "e", "i",
      "g", "h", "t", ":", "4", "0", "0", ";", "w", "i", "d", "t", "h", ":",
      "1", "0", "0", "%", "\"", " ", "a", "l", "l", "o", "w", "f", "u", "l",
      "l", "s", "c", "r", "e", "e", "n", ">", "<", "/", "i", "f", "r", "a",
      "m", "e", ">">>

\* The label without `|| resolved.basename`
LinkLabel_NoFallback(ref, resolved) ==
    Trim(OrEmpty(ref.label))

\* `(ref.label ?? "").trim() || resolved.basename`
LinkLabel(ref, resolved) ==
    IF Trim(OrEmpty(ref.label)) # <<>> THEN Trim(OrEmpty(ref.label))
    ELSE resolved.basename

buildReplacement(ref, url, resolved) ==
    LET method        == getMethodForFile(resolved)
        urlWithSuffix == url \o OrEmpty(ref.suffix)
    IN  IF method = "iframe"
        THEN IFRAME_1 \o urlWithSuffix \o IFRAME_2 \o resolved.name \o IFRAME_3
        ELSE IF method = "img"
        THEN <<"!", "[">> \o (IF ref.kind = "md-embed" THEN OrEmpty(ref.label) ELSE <<>>)
                 \o <<"]", "(">> \o urlWithSuffix \o <<")">>
        ELSE IF ref.kind \in {"md-link", "obsidian-link"}
        THEN <<"[">> \o LinkLabel(ref, resolved) \o <<"]", "(">> \o urlWithSuffix \o <<")">>
        ELSE urlWithSuffix

\* ------------------------------------------------------------------------
\* Patch loop
\* ------------------------------------------------------------------------

\* The replacements left in discovery order
SortByStartDesc_Unsorted(reps) ==
    reps

\* replacements.sort((a, b) => b.start - a.start): stable insertion
RECURSIVE SortByStartDesc(_)
SortByStartDesc(reps) ==
    IF reps = <<>> THEN <<>>
    ELSE LET rest == SortByStartDesc(Tail(reps))
             n    == Cardinality({k \in 1..Len(rest) : rest[k].start > Head(reps).start})
         IN  SubSeq(rest, 1, n) \o <<Head(reps)>> \o SubSeq(rest, n + 1, Len(rest))

\* for (const r of replacements) next = next.slice(0, r.start) + r.newText + next.slice(r.end)
RECURSIVE Splice(_, _)
Splice(next, reps) ==
    IF reps = <<>> THEN next
    ELSE Splice(Slice(next, 0, Head(reps).start) \o Head(reps).newText
                    \o SliceFrom(next, Head(reps).end),
                Tail(reps))

ApplyReplacements(content, replacements) ==
    Splice(content, SortByStartDesc(replacements))

\* ------------------------------------------------------------------------
\* The vault's notes and the documents they can hold
\* ------------------------------------------------------------------------

N_d_n_md ==
    <<"d", "/", "n", ".", "m", "d">>

N_m_md ==
    <<"m", ".", "m", "d">>

\* vault.getMarkdownFiles(), in the vault's order
MarkdownFiles ==
    <<N_d_n_md, N_m_md>>

W_a_png ==
    <<"!", "[", "[">> \o P_a_png \o <<"]", "]">>

W_r_pdf_My ==
    <<"[", "[">> \o P_r_pdf \o <<"|", "M", "y", " ", "R", "]", "]">>

M_x_a_png ==
    <<"!", "[", "x", "]", "(">> \o P_a_png \o <<")">>

M_t_a_png ==
    <<"[", "t", "]", "(">> \o P_a_png \o <<")">>

\* ![[a.png]]
Doc_embed ==
    W_a_png

\* [[r.pdf|My R]]
Doc_alias ==
    W_r_pdf_My

\* ![x](a.png)![[d/a.png]]
Doc_copies ==
    M_x_a_png \o <<"!", "[", "[">> \o P_d_a_png \o <<"]", "]">>

\* ![[a.png]][t](a.png)
Doc_twice ==
    W_a_png \o M_t_a_png

\* [![x](a.png)](r.pdf)
Doc_nested ==
    <<"[">> \o M_x_a_png \o <<"]", "(">> \o P_r_pdf \o <<")">>

\* [t](data:x)![](https://e/i.png)
Doc_remote ==
    <<"[", "t", "]", "(">> \o DATA \o <<"x", ")", "!", "[", "]", "(">> \o HTTPS
        \o <<"e", "/", "i", ".", "p", "n", "g", ")">>

\* [t](m.png)
Doc_missing ==
    <<"[", "t", "]", "(", "m", ".", "p", "n", "g", ")">>

\* [[n]] ok
Doc_plain ==
    <<"[", "[", "n", "]", "]", " ", "o", "k">>

\* ![y](r.pdf#p)
Doc_anchor ==
    <<"!", "[", "y", "]", "(">> \o P_r_pdf \o <<"#", "p", ")">>

\* [x![a](<a.png>zzzzzzzzzzzzzzz)[[[a.png]]
Doc_padded ==
    <<"[", "x", "!", "[", "a", "]", "(", "<">> \o P_a_png \o <<">">>
        \o [k \in 1..15 |-> "z"] \o <<")", "[", "[", "[">> \o P_a_png \o <<"]", "]">>

FirstTexts ==
    {Doc_embed, Doc_alias, Doc_copies, Doc_twice, Doc_nested, Doc_remote,
     Doc_missing, Doc_plain, Doc_anchor, Doc_padded}

SecondTexts ==
    {Doc_embed, Doc_plain}

\* ------------------------------------------------------------------------
\* State
\* ------------------------------------------------------------------------

VARIABLES
    notes,   \* note path -> text of the markdown file
    files,   \* the other files vault.copy made: set of [path, text]
    store,   \* names of the objects in the bucket
    pc,      \* where convertAttachments is: idle, note, refs, backup, modify, done, thrown
    opts,    \* the options and settings of the run
    run,     \* convertAttachments' locals
    hist,    \* what the run called, for stating the properties
    fn       \* input and output of a function applied on its own

vars ==
    <<notes, files, store, pc, opts, run, hist, fn>>

\* Bound on the exceptions the environment raises in one behaviour
MaxFaults ==
    1

ZeroReport ==
    [notesScanned |-> 0, refsFound |-> 0, refsRemoteSkipped |-> 0,
     refsUnresolved |-> 0, attachmentsUnsupported |-> 0, uploadsAttempted |-> 0,
     uploadsSkippedAlreadyExists |-> 0, uploadsSucceeded |-> 0, uploadsFailed |-> 0,
     notesChanged |-> 0, linksRewritten |-> 0, backupCreated |-> 0,
     errors |-> <<>>, previewLines |-> <<>>]

NoRun ==
    [scopeFiles |-> <<>>, noteIdx |-> 1, content |-> <<>>, refs |-> <<>>,
     refIdx |-> 1, replacements |-> <<>>, next |-> <<>>, cache |-> {},
     report |-> ZeroReport]

NoOpts ==
    [dryRun |-> TRUE, makeBackup |-> TRUE, linkMode |-> "proxy",
     publicBaseUrl |-> <<>>, hasS3 |-> FALSE]

AttachmentPaths ==
    {f.path : f \in Attachments}

NoHist ==
    [hashes |-> [p \in AttachmentPaths |-> 0],
     uploads |-> [p \in AttachmentPaths |-> 0],
     resolved |-> {}, notices |-> 0, modifies |-> 0, copies |-> 0,
     failedHere |-> {}, remoteBefore |-> 0, lastFault |-> "none",
     uploadFaults |-> 0, faults |-> 0, faultAt |-> 0, remoteSkips |-> {},
     notes0 |-> <<>>, files0 |-> {}, store0 |-> {}, prev |-> None]

NoFn ==
    [op |-> "none", text |-> <<>>, reps |-> <<>>, ref |-> <<>>, url |-> <<>>,
     resolved |-> <<>>, out |-> None]

\* ------------------------------------------------------------------------
\* convertAttachments
\* ------------------------------------------------------------------------

\* listMarkdownFilesInFolder
listMarkdownFilesInFolder(folderPath) ==
    LET normalized == IF folderPath = <<"/">> THEN <<>> ELSE folderPath
    IN  SelectSeq(MarkdownFiles, LAMBDA f : StartsWith(f, normalized \o <<"/">>))

\* getScopeFiles: `active` is None or Some(path of the active note)
getScopeFiles(scope, active) ==
    IF scope = "current-note"
    THEN IF active # None THEN <<active[1]>> ELSE <<>>
    ELSE IF scope = "current-folder"
    THEN IF active = None THEN <<>> ELSE listMarkdownFilesInFolder(ParentPath(active[1]))
    ELSE MarkdownFiles

\* vault.getAbstractFileByPath(path) is not null
PathExists(path, fs) ==
    \/ \E k \in 1..Len(MarkdownFiles) : MarkdownFiles[k] = path
    \/ path \in AttachmentPaths
    \/ \E f \in fs : f.path = path

BAK ==
    <<".", "b", "a", "k">>

\* `${n}` for the small n the loop reaches
Decimal(n) ==
    IF n < 10 THEN <<HexDigit(n)>> ELSE <<HexDigit(n \div 10), HexDigit(n % 10)>>

\* ensureBackup's while loop: the first free name among base, base.1, base.2, ...
RECURSIVE BackupTarget(_, _, _)
BackupTarget(base, n, fs) ==
    LET target == IF n = 0 THEN base ELSE base \o <<".">> \o Decimal(n)
    IN  IF PathExists(target, fs) THEN BackupTarget(base, n + 1, fs) ELSE target

\* ensureBackup without its while loop
ensureBackupTarget_NoLoop(notePath, fs) ==
    notePath \o BAK

ensureBackupTarget(notePath, fs) ==
    BackupTarget(notePath \o BAK, 0, fs)

CacheGet(cache, path) ==
    IF \E e \in cache : e.path = path
    THEN Some((CHOOSE e \in cache : e.path = path).url)
    ELSE None

CachePut(cache, path, url) ==
    {e \in cache : e.path # path} \cup {[path |-> path, url |-> url]}

\* What the loop body does with a reference before any upload work
RefBranch(ref, notePath, cache) ==
    IF Trim(ref.target) = <<>> THEN "empty"
    ELSE IF isProbablyRemoteLink(ref.target) THEN "remote"
    ELSE IF getFirstLinkpathDest(ref.target, notePath) = None THEN "unresolved"
    ELSE IF \/ getFirstLinkpathDest(ref.target, notePath)[1].extension = EXT_md
            \/ ~includeEXT(getFirstLinkpathDest(ref.target, notePath)[1].extension)
         THEN "unsupported"
    ELSE IF CacheGet(cache, getFirstLinkpathDest(ref.target, notePath)[1].path) # None
         THEN "cached"
    ELSE "fresh"

\* The upload reached without `if (!dryRun)`
UploadIsCalled_IgnoringDryRun(exists, dryRun) ==
    ~exists

\* Whether plugin.s3.upload is reached for an object, given objectExists' answer
UploadIsCalled(exists, dryRun) ==
    ~exists /\ ~dryRun

\* What the environment can do to the try block of a fresh file: nothing, or
\* throw from vault.readBinary, plugin.s3.objectExists or plugin.s3.upload
Outcomes(file, o, st) ==
    {"ok", "readFail", "existsFail"}
        \cup (IF UploadIsCalled(buildS3FileNameForVaultFile(file) \in st, o.dryRun)
              THEN {"uploadFail"} ELSE {})

\* `replacements.push(...)` when newText !== ref.raw, with the counters
PushReplacement(r, ref, notePath, url, resolved) ==
    LET newText == buildReplacement(ref, url, resolved)
    IN  IF newText # ref.raw
        THEN [r EXCEPT
                !.replacements = Append(@, [start |-> ref.start, end |-> ref.end,
                                            newText |-> newText]),
                !.report.linksRewritten = @ + 1,
                !.report.previewLines =
                    Append(@, [tag |-> "[REWRITE]", note |-> notePath,
                               raw |-> ref.raw, newText |-> newText])]
        ELSE r

\* A catch block that swallows the exception
CatchUploadFailure_Silent(r, resolved, outcome) ==
    r

\* A catch block that also caches the proxy URL of the file
CatchUploadFailure_CachesUrl(r, resolved, outcome) ==
    [r EXCEPT !.report.uploadsFailed = @ + 1,
              !.report.errors = Append(@, [tag |-> "Upload failed for",
                                           path |-> resolved.path, error |-> outcome]),
              !.cache = CachePut(@, resolved.path,
                                 createObjURL(ServerUrl, buildS3FileNameForVaultFile(resolved)))]

\* The catch block of the per-file try
CatchUploadFailure(r, resolved, outcome) ==
    [r EXCEPT !.report.uploadsFailed = @ + 1,
              !.report.errors = Append(@, [tag |-> "Upload failed for",
                                           path |-> resolved.path, error |-> outcome])]

\* The try block for a file with no cached URL that ran to its end
TryUpload(r, resolved, o, st) ==
    LET fileName == buildS3FileNameForVaultFile(resolved)
        target   == buildTargetUrl(fileName, o.linkMode, o.publicBaseUrl)
        exists   == fileName \in st
        called   == UploadIsCalled(exists, o.dryRun)
    IN  [r EXCEPT
            !.report.uploadsSkippedAlreadyExists = IF exists THEN @ + 1 ELSE @,
            !.report.uploadsAttempted = IF exists THEN @ ELSE @ + 1,
            !.report.uploadsSucceeded = IF called THEN @ + 1 ELSE @,
            !.cache = CachePut(@, resolved.path, target.url)]

\* One pass of `for (const ref of refs)`: the locals after it
StepRef(r, ref, notePath, o, st, outcome) ==
    LET branch   == RefBranch(ref, notePath, r.cache)
        resolved == getFirstLinkpathDest(ref.target, notePath)[1]
        r1 == [r EXCEPT !.refIdx = @ + 1]
    IN  CASE branch = "empty" -> r1
          [] branch = "remote" -> [r1 EXCEPT !.report.refsRemoteSkipped = @ + 1]
          [] branch = "unresolved" ->
                [r1 EXCEPT !.report.refsUnresolved = @ + 1,
                           !.report.previewLines =
                               Append(@, [tag |-> "[UNRESOLVED]", note |-> notePath,
                                          raw |-> ref.raw])]
          [] branch = "unsupported" -> [r1 EXCEPT !.report.attachmentsUnsupported = @ + 1]
          [] branch = "cached" ->
                PushReplacement(r1, ref, notePath, CacheGet(r.cache, resolved.path)[1], resolved)
          [] branch = "fresh" /\ outcome = "ok" ->
                PushReplacement(TryUpload(r1, resolved, o, st), ref, notePath,
                                buildTargetUrl(buildS3FileNameForVaultFile(resolved),
                                               o.linkMode, o.publicBaseUrl).url,
                                resolved)
          [] branch = "fresh" /\ outcome = "uploadFail" ->
                \* uploadsAttempted was counted before upload threw
                CatchUploadFailure([r1 EXCEPT !.report.uploadsAttempted = @ + 1],
                                   resolved, outcome)
          [] OTHER -> CatchUploadFailure(r1, resolved, outcome)

\* The bucket after that pass
StepStore(ref, notePath, cache, o, st, outcome) ==
    LET resolved == getFirstLinkpathDest(ref.target, notePath)[1]
        fileName == buildS3FileNameForVaultFile(resolved)
    IN  IF /\ RefBranch(ref, notePath, cache) = "fresh"
           /\ outcome = "ok"
           /\ UploadIsCalled(fileName \in st, o.dryRun)
        THEN st \cup {fileName} ELSE st

\* The calls that pass made
StepHist(h, ref, notePath, noteIdx, cache, o, st, outcome) ==
    LET branch   == RefBranch(ref, notePath, cache)
        resolved == getFirstLinkpathDest(ref.target, notePath)[1]
        fileName == buildS3FileNameForVaultFile(resolved)
        h1 == IF branch = "empty" THEN h
              ELSE IF branch = "remote" THEN [h EXCEPT !.remoteSkips = @ \cup {ref.start}]
              ELSE [h EXCEPT !.resolved = @ \cup {ref.target}]
    IN  IF branch # "fresh" THEN h1
        ELSE [h1 EXCEPT
                !.hashes[resolved.path] = IF outcome # "readFail" THEN @ + 1 ELSE @,
                !.notices = IF outcome # "readFail"
                               /\ buildTargetUrl(fileName, o.linkMode, o.publicBaseUrl).notice
                            THEN @ + 1 ELSE @,
                !.uploads[resolved.path] =
                    IF outcome \in {"ok", "uploadFail"} /\ UploadIsCalled(fileName \in st, o.dryRun)
                    THEN @ + 1 ELSE @,
                !.failedHere = IF outcome # "ok" THEN @ \cup {resolved.path} ELSE @,
                !.uploadFaults = IF outcome # "ok" THEN @ + 1 ELSE @,
                !.faults = IF outcome # "ok" THEN @ + 1 ELSE @,
                !.faultAt = IF outcome # "ok" THEN noteIdx ELSE @,
                !.lastFault = IF outcome # "ok" THEN outcome ELSE @]

CurrentNote ==
    run.scopeFiles[run.noteIdx]

\* A run begins: the early returns, or the locals before the first note
BeginRun(o, scopeFiles, prev) ==
    /\ opts' = o
    /\ run' = [NoRun EXCEPT !.scopeFiles = IF o.hasS3 THEN scopeFiles ELSE <<>>]
    /\ hist' = [NoHist EXCEPT !.faults = hist.faults, !.notes0 = notes,
                              !.files0 = files, !.store0 = store, !.prev = prev]
    /\ pc' = IF o.hasS3 /\ scopeFiles # <<>> THEN "note" ELSE "done"
    /\ UNCHANGED <<notes, files, store, fn>>

\* opts and the settings read from the plugin: a public base URL only
\* matters in public link mode
OptionSets ==
    {o \in [dryRun : BOOLEAN, makeBackup : BOOLEAN, linkMode : {"proxy", "public"},
            publicBaseUrl : {<<>>, PublicBase}, hasS3 : BOOLEAN] :
        /\ o.linkMode = "proxy" => o.publicBaseUrl = <<>>
        /\ ~o.hasS3 => o = NoOpts}

Scopes ==
    {"current-note", "current-folder", "entire-vault"}

\* The user runs the command, with some note active or none
StartRun ==
    /\ pc = "idle"
    /\ \E o \in OptionSets, scope \in Scopes, active \in {None, Some(N_d_n_md)} :
          BeginRun(o, getScopeFiles(scope, active), None)

\* The user runs it again in the same scope on the vault and bucket the
\* first run left, this time (or again) for real
Rerun ==
    /\ pc = "done"
    /\ hist.prev = None
    /\ run.scopeFiles # <<>>
    /\ BeginRun([opts EXCEPT !.dryRun = FALSE], run.scopeFiles,
                Some([opts |-> opts, report |-> run.report,
                      uploadFaults |-> hist.uploadFaults]))

FilterCandidates(refs) ==
    SelectSeq(refs, LAMBDA x : isAttachmentCandidate(x.target))

\* Top of the note loop: vault.read, the scan and the candidate filter
ReadNote ==
    /\ pc = "note"
    /\ run.noteIdx <= Len(run.scopeFiles)
    /\ run' = [run EXCEPT
                 !.report.notesScanned = @ + 1,
                 !.content = notes[CurrentNote],
                 !.refs = FilterCandidates(extractAttachmentRefs(notes[CurrentNote])),
                 !.report.refsFound =
                     @ + Len(FilterCandidates(extractAttachmentRefs(notes[CurrentNote]))),
                 !.refIdx = 1, !.replacements = <<>>, !.next = <<>>]
    /\ hist' = [hist EXCEPT !.failedHere = {}, !.remoteSkips = {},
                            !.remoteBefore = run.report.refsRemoteSkipped]
    /\ pc' = "refs"
    /\ UNCHANGED <<notes, files, store, opts, fn>>

\* An exception of vault.read, vault.copy or vault.modify: nothing catches it
Throw(kind) ==
    /\ hist.faults < MaxFaults
    /\ hist' = [hist EXCEPT !.faults = @ + 1, !.lastFault = kind, !.faultAt = run.noteIdx]
    /\ pc' = "thrown"

ReadNoteThrows ==
    /\ pc = "note"
    /\ run.noteIdx <= Len(run.scopeFiles)
    /\ Throw("readDocFail")
    /\ run' = [run EXCEPT !.report.notesScanned = @ + 1]
    /\ UNCHANGED <<notes, files, store, opts, fn>>

HandleRef ==
    /\ pc = "refs"
    /\ run.refIdx <= Len(run.refs)
    /\ LET ref == run.refs[run.refIdx]
       IN  \E outcome \in
                 IF RefBranch(ref, CurrentNote, run.cache) = "fresh"
                 THEN Outcomes(getFirstLinkpathDest(ref.target, CurrentNote)[1], opts, store)
                 ELSE {"ok"} :
              /\ outcome # "ok" => hist.faults < MaxFaults
              /\ run' = StepRef(run, ref, CurrentNote, opts, store, outcome)
              /\ store' = StepStore(ref, CurrentNote, run.cache, opts, store, outcome)
              /\ hist' = StepHist(hist, ref, CurrentNote, run.noteIdx, run.cache, opts, store, outcome)
    /\ UNCHANGED <<notes, files, pc, opts, fn>>

\* After the reference loop: nothing to do, or the patch and what follows it
EndRefs ==
    /\ pc = "refs"
    /\ run.refIdx > Len(run.refs)
    /\ IF run.replacements = <<>>
       THEN /\ run' = [run EXCEPT !.noteIdx = @ + 1]
            /\ pc' = "note"
       ELSE /\ run' = [run EXCEPT
                         !.next = ApplyReplacements(run.content, run.replacements),
                         !.noteIdx = IF opts.dryRun THEN @ + 1 ELSE @]
            /\ pc' = IF opts.dryRun THEN "note"
                     ELSE IF opts.makeBackup THEN "backup" ELSE "modify"
    /\ UNCHANGED <<notes, files, store, opts, hist, fn>>

\* ensureBackup, then report.backupCreated += 1
Backup ==
    /\ pc = "backup"
    /\ files' = files \cup {[path |-> ensureBackupTarget(CurrentNote, files),
                             text |-> notes[CurrentNote]]}
    /\ run' = [run EXCEPT !.report.backupCreated = @ + 1]
    /\ hist' = [hist EXCEPT !.copies = @ + 1]
    /\ pc' = "modify"
    /\ UNCHANGED <<notes, store, opts, fn>>

BackupThrows ==
    /\ pc = "backup"
    /\ Throw("copyFail")
    /\ UNCHANGED <<notes, files, store, opts, run, fn>>

\* vault.modify(note, next), then report.notesChanged += 1
Modify ==
    /\ pc = "modify"
    /\ notes' = [notes EXCEPT ![CurrentNote] = run.next]
    /\ run' = [run EXCEPT !.report.notesChanged = @ + 1, !.noteIdx = @ + 1]
    /\ hist' = [hist EXCEPT !.modifies = @ + 1]
    /\ pc' = "note"
    /\ UNCHANGED <<files, store, opts, fn>>

ModifyThrows ==
    /\ pc = "modify"
    /\ Throw("modifyFail")
    /\ UNCHANGED <<notes, files, store, opts, run, fn>>

\* After the last note: the summary Notice and `return report`
FinishRun ==
    /\ pc = "note"
    /\ run.noteIdx > Len(run.scopeFiles)
    /\ pc' = "done"
    /\ UNCHANGED <<notes, files, store, opts, run, hist, fn>>

InitialStores ==
    {{}, {buildS3FileNameForVaultFile(TFile(P_r_pdf, <<9>>))}}

InitialFiles ==
    {{}, {[path |-> N_d_n_md \o BAK, text |-> <<>>]}}

Init ==
    /\ notes \in {[p \in {N_d_n_md, N_m_md} |-> IF p = N_d_n_md THEN a ELSE b] :
                     a \in FirstTexts, b \in SecondTexts}
    /\ files \in InitialFiles
    /\ store \in InitialStores
    /\ pc = "idle"
    /\ opts = NoOpts
    /\ run = NoRun
    /\ hist = NoHist
    /\ fn = NoFn

Next ==
    \/ StartRun
    \/ Rerun
    \/ ReadNote
    \/ ReadNoteThrows
    \/ HandleRef
    \/ EndRefs
    \/ Backup
    \/ BackupThrows
    \/ Modify
    \/ ModifyThrows
    \/ FinishRun

Spec ==
    Init /\ [][Next]_vars

\* ------------------------------------------------------------------------
\* The patch loop and the renderer applied on their own
\* ------------------------------------------------------------------------

MaxTextLen ==
    4

MaxSpans ==
    2

ALPHABET ==
    <<"a", "b", "c", "d", "e", "f", "g", "h">>

NewTexts ==
    {<<>>, <<"X">>, <<"Y", "Z", "W">>}

\* A reference's span is a regular-expression match: never empty
SpansOf(n) ==
    {r \in [start : 0..n, end : 0..n, newText : NewTexts] : r.start < r.end}

Disjoint(r1, r2) ==
    r1.end <= r2.start \/ r2.end <= r1.start

\* Lists of at most k pairwise non-overlapping spans of a text of length n,
\* in any order
RECURSIVE SpanLists(_, _)
SpanLists(n, k) ==
    IF k = 0 THEN {<<>>}
    ELSE LET shorter == SpanLists(n, k - 1)
         IN  shorter \cup
             {e \in {Append(l, r) : l \in shorter, r \in SpansOf(n)} :
                 \A i \in 1..(Len(e) - 1) : Disjoint(e[i], e[Len(e)])}

PatchInputs ==
    UNION {{[NoFn EXCEPT !.op = "patch", !.text = SubSeq(ALPHABET, 1, n), !.reps = l] :
               l \in SpanLists(n, MaxSpans)} : n \in 0..MaxTextLen}

RenderLabels ==
    {None, Some(<<>>), Some(<<" ">>), Some(<<"M", "y">>), Some(<<" ", "M", " ">>)}

RenderRefs ==
    {[kind |-> k, start |-> 0, end |-> 0, raw |-> <<>>, target |-> <<>>,
      label |-> l, suffix |-> x] :
        k \in {"obsidian-embed", "obsidian-link", "md-embed", "md-link"},
        l \in RenderLabels, x \in {None, Some(<<"#", "p">>)}}
      \cup {extractAttachmentRefs(Doc_alias)[1], extractAttachmentRefs(Doc_anchor)[1]}

RenderFiles ==
    Attachments \cup {TFile(P_v_html, <<3>>)}

RenderUrls(f) ==
    {buildTargetUrl(buildS3FileNameForVaultFile(f), m, PublicBase).url :
        m \in {"proxy", "public"}}

RenderInputs ==
    UNION {{[NoFn EXCEPT !.op = "render", !.ref = r, !.url = u, !.resolved = f] :
               r \in RenderRefs, u \in RenderUrls(f)} : f \in RenderFiles}

FnInit ==
    /\ notes = [p \in {N_d_n_md, N_m_md} |-> <<>>]
    /\ files = {}
    /\ store = {}
    /\ pc = "idle"
    /\ opts = NoOpts
    /\ run = NoRun
    /\ hist = NoHist
    /\ fn \in PatchInputs \cup RenderInputs

\* The patch loop of convertAttachments on fn.text and fn.reps
Patch ==
    /\ fn.op = "patch"
    /\ fn.out = None
    /\ fn' = [fn EXCEPT !.out = Some(ApplyReplacements(fn.text, fn.reps))]
    /\ UNCHANGED <<notes, files, store, pc, opts, run, hist>>

\* buildReplacement on fn.ref, fn.url and fn.resolved
Render ==
    /\ fn.op = "render"
    /\ fn.out = None
    /\ fn' = [fn EXCEPT !.out = Some(buildReplacement(fn.ref, fn.url, fn.resolved))]
    /\ UNCHANGED <<notes, files, store, pc, opts, run, hist>>

FnNext ==
    \/ Patch
    \/ Render

FnSpec ==
    FnInit /\ [][FnNext]_vars

\* ------------------------------------------------------------------------
\* Properties
\* ------------------------------------------------------------------------

Running ==
    pc \in {"note", "refs", "backup", "modify"}

\* The file a candidate reference of the current note resolves to
ResolvedOf(ref) ==
    getFirstLinkpathDest(ref.target, CurrentNote)

\* C1: in one run, every vault file is read and hashed at most once and
\* plugin.s3.upload is called for it at most once, whatever failed before.
C1_AtMostOncePerFile ==
    \A p \in AttachmentPaths : hist.hashes[p] <= 1 /\ hist.uploads[p] <= 1

\* A dry run uploads nothing, writes nothing and backs nothing up
DryRunCommitsNothing ==
    (opts.dryRun /\ pc # "idle") =>
        /\ hist.modifies = 0
        /\ hist.copies = 0
        /\ \A p \in AttachmentPaths : hist.uploads[p] = 0
        /\ notes = hist.notes0
        /\ files = hist.files0
        /\ store = hist.store0
        /\ run.report.notesChanged = 0
        /\ run.report.backupCreated = 0
        /\ run.report.uploadsSucceeded = 0

\* A real run that followed a dry run of the same options, neither of which
\* met an exception
RealAfterDry ==
    /\ pc = "done"
    /\ hist.prev # None
    /\ hist.prev[1].opts.dryRun
    /\ hist.prev[1].uploadFaults = 0
    /\ hist.uploadFaults = 0

\* C2 (as claimed): a dry run uploads nothing, writes nothing, backs nothing
\* up, and its uploadsAttempted and linksRewritten are those of the real run.
C2_DryRunCountsAsRealRun ==
    /\ DryRunCommitsNothing
    /\ RealAfterDry =>
          /\ hist.prev[1].report.uploadsAttempted = run.report.uploadsAttempted
          /\ hist.prev[1].report.linksRewritten = run.report.linksRewritten

\* C2 (amended): a dry run uploads nothing, writes nothing and backs nothing
\* up; its linksRewritten is that of the real run, and its uploadsAttempted
\* is at least that of the real run.
C2_DryRunCommitsNothing ==
    /\ DryRunCommitsNothing
    /\ RealAfterDry =>
          /\ hist.prev[1].report.uploadsAttempted >= run.report.uploadsAttempted
          /\ hist.prev[1].report.linksRewritten = run.report.linksRewritten

C2_Witness ==
    /\ RealAfterDry
    /\ hist.prev[1].report.uploadsAttempted >= 1
    /\ hist.prev[1].report.linksRewritten >= 1
    /\ hist.prev[1].report.notesChanged = 0
    /\ run.report.notesChanged >= 1

\* C3: a second real run over what a first real run left uploads nothing,
\* rewrites nothing and leaves every note's text as it was (stated for the
\* runs in which nothing threw: it fails even there).
C3_SecondRunChangesNothing ==
    (pc = "done" /\ hist.prev # None /\ ~hist.prev[1].opts.dryRun /\ hist.faults = 0) =>
        /\ run.report.uploadsAttempted = 0
        /\ run.report.uploadsSucceeded = 0
        /\ run.report.linksRewritten = 0
        /\ run.report.notesChanged = 0
        /\ notes = hist.notes0

\* C4: an upload failure is counted and logged with the file's path, and no
\* reference of the current note to a file whose upload failed is rewritten.
C4_FailedFileStaysUnrewritten ==
    Running =>
        /\ run.report.uploadsFailed = hist.uploadFaults
        /\ Len(run.report.errors) = hist.uploadFaults
        /\ hist.failedHere \subseteq {run.report.errors[k].path : k \in 1..Len(run.report.errors)}
        /\ \A k \in 1..Len(run.replacements) :
              \A j \in 1..Len(run.refs) :
                 (run.refs[j].start = run.replacements[k].start
                      /\ run.refs[j].end = run.replacements[k].end)
                    => ResolvedOf(run.refs[j])[1].path \notin hist.failedHere

DocFaults ==
    {"readDocFail", "copyFail", "modifyFail"}

\* C5 (as claimed): no failure of an operation on a document ends the run:
\* it becomes a report entry, every note in scope is scanned and the run
\* returns its report.
C5_NoFailureEndsTheRun ==
    /\ pc # "thrown"
    /\ pc = "done" =>
          /\ run.report.notesScanned = Len(run.scopeFiles)
          /\ Len(run.report.errors) = hist.uploadFaults

\* C5 (amended): a failure of reading/hashing, existence check or upload
\* becomes a report entry (uploadsFailed and errors) and every note in scope
\* is still scanned; a failure of vault.read, vault.copy or vault.modify is
\* not caught and ends the run without a report.
C5_OnlyUploadFailuresAreCaught ==
    /\ pc = "thrown" <=> hist.lastFault \in DocFaults
    /\ pc = "thrown" => run.noteIdx = hist.faultAt
    /\ pc # "idle" =>
          /\ run.report.uploadsFailed = hist.uploadFaults
          /\ Len(run.report.errors) = hist.uploadFaults
    /\ pc = "done" => run.report.notesScanned = Len(run.scopeFiles)

C5_Witness ==
    /\ pc = "done"
    /\ hist.uploadFaults >= 1
    /\ hist.faultAt = 1
    /\ run.report.notesScanned = 2
    /\ run.report.uploadsFailed >= 1

RemoteSchemes ==
    {HTTP, HTTPS, DATA, MAILTO, FILE}

BeginsWithRemoteScheme(target) ==
    \E p \in RemoteSchemes : StartsWith(target, p)

\* The references of the scanned note whose target begins with a remote scheme
RemoteRefs ==
    {ref \in {extractAttachmentRefs(run.content)[k] :
                 k \in 1..Len(extractAttachmentRefs(run.content))} :
        BeginsWithRemoteScheme(ref.target)}

Rewritten(ref) ==
    \E k \in 1..Len(run.replacements) :
        run.replacements[k].start = ref.start /\ run.replacements[k].end = ref.end

RefsLoopOver ==
    pc = "refs" /\ run.refIdx > Len(run.refs)

\* C6 (as claimed): every scanned reference whose target begins with a
\* remote scheme is never resolved, never rewritten and is counted once in
\* refsRemoteSkipped, whatever its extension.
C6_EveryRemoteRefCounted ==
    RefsLoopOver =>
        /\ run.report.refsRemoteSkipped - hist.remoteBefore = Cardinality(hist.remoteSkips)
        /\ \A ref \in RemoteRefs :
              /\ ref.target \notin hist.resolved
              /\ ~Rewritten(ref)
              /\ ref.start \in hist.remoteSkips

\* C6 (amended): such a reference is never resolved and never rewritten; it
\* is counted once in refsRemoteSkipped when its target has a supported
\* attachment extension, and not counted otherwise.
C6_RemoteCandidatesCounted ==
    RefsLoopOver =>
        /\ run.report.refsRemoteSkipped - hist.remoteBefore = Cardinality(hist.remoteSkips)
        /\ \A ref \in RemoteRefs :
              /\ ref.target \notin hist.resolved
              /\ ~Rewritten(ref)
              /\ ref.start \in hist.remoteSkips <=> isAttachmentCandidate(ref.target)

C6_Witness ==
    /\ RefsLoopOver
    /\ \E ref \in RemoteRefs : ref.start \in hist.remoteSkips
    /\ \E ref \in RemoteRefs : ref.start \notin hist.remoteSkips

\* C7: the replacement spans collected for a note are pairwise
\* non-overlapping.
C7_SpansDoNotOverlap ==
    \A i, j \in 1..Len(run.replacements) :
        i < j => \/ run.replacements[i].end <= run.replacements[j].start
                 \/ run.replacements[j].end <= run.replacements[i].start

IsProxyUrl(url) ==
    StartsWith(url, ServerUrl \o FolderPart)

\* C10: in public link mode without a public base URL every file gets a
\* proxy URL (no URL-construction error is reported), and the fallback
\* warning is raised at most once in the run (stated for the runs in which
\* nothing threw: it fails even there).
C10_OneFallbackWarning ==
    (opts.linkMode = "public" /\ opts.publicBaseUrl = <<>> /\ pc # "idle"
         /\ hist.faults = 0) =>
        /\ \A e \in run.cache : IsProxyUrl(e.url)
        /\ \A k \in 1..Len(run.report.errors) :
              run.report.errors[k].tag # "Unable to create target URL for"
        /\ hist.notices <= 1

\* The text with every span's slice replaced, built left to right
RECURSIVE Replaced(_, _, _)
Replaced(text, reps, i) ==
    IF i >= Len(text) THEN <<>>
    ELSE IF \E k \in 1..Len(reps) : reps[k].start = i
         THEN LET r == reps[CHOOSE k \in 1..Len(reps) : reps[k].start = i]
              IN  r.newText \o Replaced(text, reps, r.end)
         ELSE <<At(text, i)>> \o Replaced(text, reps, i + 1)

RECURSIVE LengthChange(_)
LengthChange(reps) ==
    IF reps = <<>> THEN 0
    ELSE Len(Head(reps).newText) - (Head(reps).end - Head(reps).start)
             + LengthChange(Tail(reps))

\* C8: for pairwise non-overlapping spans in any order, the patch loop
\* returns the text with each span's slice replaced by its newText; the
\* length grows by the sum of the spans' length changes.
C8_PatchReplacesEachSpan ==
    (fn.op = "patch" /\ fn.out # None) =>
        /\ fn.out[1] = Replaced(fn.text, fn.reps, 0)
        /\ Len(fn.out[1]) = Len(fn.text) + LengthChange(fn.reps)

C8_Witness ==
    /\ fn.op = "patch"
    /\ fn.out # None
    /\ Len(fn.reps) = 2
    /\ fn.reps[1].start < fn.reps[2].start
    /\ Len(fn.reps[1].newText) # fn.reps[1].end - fn.reps[1].start
    /\ fn.out[1] # fn.text

\* The label the claim names: the trimmed label, else the file's base name
ClaimedLabel(ref, resolved) ==
    IF ref.label # None /\ Trim(ref.label[1]) # <<>> THEN Trim(ref.label[1])
    ELSE FileBasename(resolved.path)

ClaimedLink(ref, url, resolved) ==
    <<"[">> \o ClaimedLabel(ref, resolved) \o <<"]", "(">> \o url
        \o (IF ref.suffix = None THEN <<>> ELSE ref.suffix[1]) \o <<")">>

RenderedAsLink ==
    fn.op = "render" /\ fn.out # None /\ getMethodForFile(fn.resolved) = "link"

\* C9 (as claimed): a reference of any kind to a file rendered as a link
\* becomes [L](U).
C9_EveryKindBecomesALink ==
    RenderedAsLink => fn.out[1] = ClaimedLink(fn.ref, fn.url, fn.resolved)

\* C9 (amended): a markdown link or wiki link to such a file becomes
\* [L](U), with L the trimmed label or else the base name; a markdown embed
\* or wiki embed becomes the bare U.
C9_LinksBecomeLinksEmbedsBareUrl ==
    RenderedAsLink =>
        IF fn.ref.kind \in {"md-link", "obsidian-link"}
        THEN fn.out[1] = ClaimedLink(fn.ref, fn.url, fn.resolved)
        ELSE fn.out[1] = fn.url \o (IF fn.ref.suffix = None THEN <<>> ELSE fn.ref.suffix[1])

C9_Witness ==
    /\ RenderedAsLink
    /\ fn.ref = extractAttachmentRefs(Doc_alias)[1]
    /\ fn.out[1] = <<"[", "M", "y", " ", "R", "]", "(">> \o fn.url \o <<")">>

\* A candidate reference that reaches the resolver and resolves to no file
Unresolved(ref) ==
    /\ Trim(ref.target) # <<>>
    /\ ~BeginsWithRemoteScheme(Trim(ref.target))
    /\ ResolvedOf(ref) = None

HandlingUnresolved ==
    pc = "refs" /\ run.refIdx <= Len(run.refs) /\ Unresolved(run.refs[run.refIdx])

\* What the replacements that start before offset i add to the text's length
RECURSIVE ShiftBefore(_, _)
ShiftBefore(reps, i) ==
    IF reps = <<>> THEN 0
    ELSE (IF Head(reps).start < i
          THEN Len(Head(reps).newText) - (Head(reps).end - Head(reps).start)
          ELSE 0) + ShiftBefore(Tail(reps), i)

\* The unresolved reference is counted, previewed and skipped
UnresolvedIsSkipped ==
    HandlingUnresolved =>
        /\ run'.report.refsUnresolved = run.report.refsUnresolved + 1
        /\ run'.report.previewLines =
               Append(run.report.previewLines,
                      [tag |-> "[UNRESOLVED]", note |-> CurrentNote,
                       raw |-> run.refs[run.refIdx].raw])
        /\ hist'.hashes = hist.hashes
        /\ hist'.uploads = hist.uploads
        /\ store' = store
        /\ run'.replacements = run.replacements
        /\ pc' = "refs"
        /\ run'.refIdx = run.refIdx + 1

\* The text vault.modify writes holds every unresolved reference's raw text
UnresolvedIsKept ==
    (pc = "modify" /\ notes' # notes /\ hist.faults = 0) =>
        \A k \in 1..Len(run.refs) :
            Unresolved(run.refs[k]) =>
                LET d == ShiftBefore(run.replacements, run.refs[k].start)
                IN  Slice(notes'[CurrentNote], run.refs[k].start + d,
                          run.refs[k].end + d) = run.refs[k].raw

\* C11: a candidate reference that resolves to no file adds one to
\* refsUnresolved and one [UNRESOLVED] preview line with the note's path and
\* its raw text, nothing is hashed or uploaded for it, the run goes on with
\* the next reference, and its span keeps its text in the note written.
C11_UnresolvedLeftAlone ==
    [][UnresolvedIsSkipped /\ UnresolvedIsKept]_vars

DIGITS ==
    {"0", "1", "2", "3", "4", "5", "6", "7", "8", "9"}

\* path is `<notePath>.bak` or `<notePath>.bak.<n>`
IsBackupNameOf(path, notePath) ==
    /\ StartsWith(path, notePath \o BAK)
    /\ LET rest == SliceFrom(path, Len(notePath) + Len(BAK))
       IN  \/ rest = <<>>
           \/ /\ Len(rest) >= 2
              /\ rest[1] = "."
              /\ rest[2] # "0"
              /\ \A k \in 2..Len(rest) : rest[k] \in DIGITS

\* The step in which vault.copy returns
CopyStep ==
    hist'.copies = hist.copies + 1

\* The step in which vault.modify returns
ModifyStep ==
    hist'.modifies = hist.modifies + 1

\* The copy is of the note being patched, to a backup name no file has
CopyTakesFreeName ==
    CopyStep =>
        /\ ~opts.dryRun /\ opts.makeBackup
        /\ run.replacements # <<>>
        /\ hist.copies = hist.modifies
        /\ \E f \in files' \ files :
              /\ files' = files \cup {f}
              /\ IsBackupNameOf(f.path, CurrentNote)
              /\ ~PathExists(f.path, files)
              /\ f.text = notes[CurrentNote]

\* The note is written after its backup, and only when it has replacements
ModifyFollowsCopy ==
    ModifyStep =>
        /\ ~opts.dryRun
        /\ run.replacements # <<>>
        /\ notes' = [notes EXCEPT ![CurrentNote] = run.next]
        /\ opts.makeBackup =>
              /\ hist.copies = hist.modifies + 1
              /\ \E f \in files \ hist.files0 :
                    IsBackupNameOf(f.path, CurrentNote) /\ f.text = notes[CurrentNote]

\* No file is removed or overwritten, and a note without replacements is
\* neither copied nor written
NothingOverwritten ==
    /\ files \subseteq files'
    /\ \A f, g \in files' : f.path = g.path => f = g
    /\ (pc = "refs" /\ pc' = "note" /\ run.replacements = <<>>) =>
          /\ UNCHANGED <<notes, files>>
          /\ hist'.copies = hist.copies
          /\ hist'.modifies = hist.modifies
    /\ notes' # notes => ModifyStep

\* C12: in a real run with makeBackup, every note that is written was first
\* copied to `<path>.bak` or `<path>.bak.<n>`, a name no file had when the
\* copy was made; no file is ever overwritten; a note with no replacements
\* is neither backed up nor written.
C12_BackupBeforeModify ==
    [][CopyTakesFreeName /\ ModifyFollowsCopy /\ NothingOverwritten]_vars

C12_Witness ==
    /\ pc = "done"
    /\ ~opts.dryRun /\ opts.makeBackup
    /\ hist.modifies >= 1
    /\ hist.copies = hist.modifies
    /\ [path |-> N_d_n_md \o BAK, text |-> <<>>] \in files
    /\ [path |-> N_d_n_md \o BAK \o <<".", "1">>, text |-> hist.notes0[N_d_n_md]] \in files
    /\ notes[N_d_n_md] # hist.notes0[N_d_n_md]

\* The object a URL names: its last path segment, without query or fragment
ObjectOf(url) ==
    AfterLast(BeforeFirst(BeforeFirst(url, "#"), "?"), "/")

Contains(text, part) ==
    \E i \in 0..(Len(text) - Len(part)) : Slice(text, i, i + Len(part)) = part

\* The references of a text that point at the proxy or at the public base
RemoteTargetsOf(text) ==
    {r.target : r \in {ref \in {extractAttachmentRefs(text)[k] :
                                   k \in 1..Len(extractAttachmentRefs(text))} :
                          \/ StartsWith(ref.target, ServerUrl \o FolderPart)
                          \/ StartsWith(ref.target, PublicBase \o FolderPart)}}

\* In a real run every cached URL names an object of the store
CachedUrlsExist ==
    (~opts.dryRun /\ pc # "idle") =>
        \A e \in run.cache : ObjectOf(e.url) \in store

\* What vault.modify writes links only to objects of the store
WrittenUrlsExist ==
    ModifyStep =>
        /\ \A k \in 1..Len(run.replacements) :
              \E e \in run.cache :
                 /\ Contains(run.replacements[k].newText, e.url)
                 /\ ObjectOf(e.url) \in store'
        /\ \A t \in RemoteTargetsOf(notes'[CurrentNote]) : ObjectOf(t) \in store'

\* C13: in a real run, whenever vault.modify writes a note, every URL the
\* run put into it names an object that is in the store at that moment; a
\* URL is cached only once its object is in the store, and the store never
\* loses an object.
C13_NoDanglingLinks ==
    [][/\ CachedUrlsExist
       /\ WrittenUrlsExist
       /\ store \subseteq store']_vars

C13_Witness ==
    /\ pc = "done"
    /\ ~opts.dryRun
    /\ hist.modifies >= 1
    /\ run.report.uploadsSucceeded >= 1
    /\ run.report.uploadsSkippedAlreadyExists >= 1
    /\ Cardinality(RemoteTargetsOf(notes[N_d_n_md])) >= 1
    /\ \A t \in RemoteTargetsOf(notes[N_d_n_md]) : ObjectOf(t) \in store
    /\ store # hist.store0
====
